---- MODULE Spec2Model ----
(***************************************************************************)
(* GlipaBot (src/GlipaBot.py): the media store (media_cache and its two    *)
(* flat files), the background channel scan, the commands that reload or   *)
(* purge the store, and the hourly posting loop.                           *)
(*                                                                         *)
(* The specifications share the store operators:                          *)
(*   SpecStore  the store functions called directly (add_media,            *)
(*              clean_tenor_media_from_storage, save_media_data,           *)
(*              load_media_data, get_random_media), one call per step;     *)
(*   Spec       the bot on a first run (no settings.json): on_ready, the   *)
(*              slash commands, perform_scan tasks interleaving at their   *)
(*              awaits, and media_posting_loop;                            *)
(*   SpecPost   media_posting_loop with target channels and every setting; *)
(*   SpecCaption generate_message on every template bank;                  *)
(*   SpecAck    the scan command with its acknowledgement on record;       *)
(*   SpecSend   the random command and the posting loop beside a scan;     *)
(*   SpecScans  the scan command and its tasks, under fair scheduling;     *)
(*   SpecSolo   scans one at a time, with nothing else touching the store. *)
(***************************************************************************)
EXTENDS Integers, Sequences, FiniteSets, TLC

VARIABLES
    links,          \* media_cache['links']: list of URLs
    metadata,       \* media_cache['metadata']: insertion-ordered dict, as the list of its items
    links_file,     \* media_links.txt: [exists, lines]
    metadata_file,  \* media_metadata.json: [exists, media]
    last,           \* SpecStore: the last store call and what it returned
    ready,          \* on_ready has run: the bot takes commands
    scan_tasks,     \* scan_tasks: channel id -> task (0: no entry)
    task,           \* the perform_scan tasks: where each is, and its locals
    settings_cache, \* settings_cache: the keys the posting loop reads
    post            \* media_posting_loop: where the cycle is, and its locals

storeVars == <<links, metadata, links_file, metadata_file>>
scanVars == <<scan_tasks, task>>
postVars == <<settings_cache, post>>
botVars == <<ready, scan_tasks, task, settings_cache, post>>
vars == <<links, metadata, links_file, metadata_file, last, ready, scan_tasks,
          task, settings_cache, post>>

----------------------------------------------------------------------------
(* Strings.  TLC computes Len and \o on strings; prefix and substring      *)
(* tests are tabulated for the URLs the model uses.  The URLs hold no      *)
(* white space: the scan's patterns match [^\s]* and an attachment's URL   *)
(* is Discord's CDN URL.                                                   *)

U_ATTACH == "https://cdn.discordapp.com/attachments/1/2/cat.gif"
U_VIEW   == "https://tenor.com/view/cat-dance-12345"
U_PNG    == "https://cdn.example.com/pic.PNG"
U_MEDIA  == "https://media.tenor.com/abc.gif"
U_QUERY  == "https://i.example.com/a.gif?width=200"
U_VIDEO  == "https://cdn.discordapp.com/attachments/1/2/clip.mp4"
U_SHORT  == "http://ab"
U_FTP    == "ftp://cdn.example.com/pic.png"
U_EMPTY  == ""

Urls == {U_ATTACH, U_VIEW, U_PNG, U_MEDIA, U_QUERY, U_VIDEO, U_SHORT, U_FTP, U_EMPTY}

\* url.startswith('http://') or url.startswith('https://')
StartsWithHttp(url) ==
    url \in {U_ATTACH, U_VIEW, U_PNG, U_MEDIA, U_QUERY, U_VIDEO, U_SHORT}

\* 'media.tenor.com' in url
ContainsMediaTenor(url) == url \in {U_MEDIA}

\* 'tenor.com' in url
ContainsTenor(url) == url \in {U_VIEW, U_MEDIA}

\* url.lower().endswith('.gif')
LowerEndsWithGif(url) == url \in {U_ATTACH, U_MEDIA}

----------------------------------------------------------------------------
(* Python list and dict helpers.                                           *)

InList(x, s) == \E i \in DOMAIN s : s[i] = x

\* dict.keys()
DictKeys(d) == {d[i].url : i \in DOMAIN d}

\* d[k] = item: an existing key keeps its position, a new key goes last
DictSet(d, item) ==
    IF item.url \in DictKeys(d)
    THEN [i \in DOMAIN d |-> IF d[i].url = item.url THEN item ELSE d[i]]
    ELSE Append(d, item)

\* the dict as a mapping: dict equality ignores insertion order
AsMap(d) == {d[i] : i \in DOMAIN d}

\* {item['url']: item for item in data}: a later item replaces an earlier one
RECURSIVE DictFromItems(_, _)
DictFromItems(d, items) ==
    IF items = <<>> THEN d
    ELSE DictFromItems(DictSet(d, Head(items)), Tail(items))

----------------------------------------------------------------------------
(* The file formats.                                                       *)

\* f.write(link + '\n')
WriteLine(link) == link \o "\n"

\* line.strip() of a line of the file; a line the file holds was written by
\* WriteLine from a string without surrounding white space
RECURSIVE StripOf(_, _)
StripOf(line, cands) ==
    IF cands = {} THEN line
    ELSE LET u == CHOOSE c \in cands : TRUE
         IN  IF line = WriteLine(u) THEN u ELSE StripOf(line, cands \ {u})

\* mutant: the line is kept with its line break
Strip_KeepsNewline(line) == line

Strip(line) == IF line = "\n" THEN "" ELSE StripOf(line, Urls)

\* [line.strip() for line in f if line.strip()]
RECURSIVE ReadLines(_)
ReadLines(lines) ==
    IF lines = <<>> THEN <<>>
    ELSE IF Strip(Head(lines)) # ""
         THEN <<Strip(Head(lines))>> \o ReadLines(Tail(lines))
         ELSE ReadLines(Tail(lines))

----------------------------------------------------------------------------
(* The media store.  A cache value is [links, metadata]; a files value is  *)
(* [links_file, metadata_file].                                            *)

Cache(l, m) == [links |-> l, metadata |-> m]
Files(lf, mf) == [links_file |-> lf, metadata_file |-> mf]

NoFile == [exists |-> FALSE, lines |-> <<>>]
NoJson == [exists |-> FALSE, media |-> <<>>]

\* load_media_data: both files are read before media_cache is assigned, so
\* a read or parse that raises (io_ok = FALSE, of a file that exists) leaves
\* the cache as it was
load_media_data(cache, files, io_ok) ==
    IF ~io_ok /\ (files.links_file.exists \/ files.metadata_file.exists)
    THEN [ret |-> FALSE, cache |-> cache]
    ELSE [ret |-> TRUE,
          cache |-> Cache(
              IF files.links_file.exists
              THEN ReadLines(files.links_file.lines) ELSE <<>>,
              IF files.metadata_file.exists
              THEN DictFromItems(<<>>, files.metadata_file.media) ELSE <<>>)]

\* save_media_data: one line per link, then {'media': list(metadata.values())}
save_media_data(cache) ==
    Files([exists |-> TRUE,
           lines |-> [i \in DOMAIN cache.links |-> WriteLine(cache.links[i])]],
          [exists |-> TRUE, media |-> cache.metadata])

\* add_media: the two ways it returns
Rejected(cache) == [ret |-> FALSE, cache |-> cache]
Inserted(cache, url, media_type, generated_text, now) ==
    [ret |-> TRUE,
     cache |-> Cache(
         Append(cache.links, url),
         DictSet(cache.metadata,
                 [url |-> url, date_added |-> now, type |-> media_type,
                  generated_text |-> generated_text]))]

\* mutants of add_media: no duplicate check; no blocklist; a blocklist that
\* matches every tenor.com link
add_media_NoDuplicateCheck(cache, url, media_type, generated_text, now) ==
    IF url = "" \/ Len(url) < 10 THEN Rejected(cache)
    ELSE IF ~StartsWithHttp(url) THEN Rejected(cache)
    ELSE IF ContainsMediaTenor(url) THEN Rejected(cache)
    ELSE Inserted(cache, url, media_type, generated_text, now)

add_media_NoBlocklist(cache, url, media_type, generated_text, now) ==
    IF url = "" \/ Len(url) < 10 THEN Rejected(cache)
    ELSE IF InList(url, cache.links) THEN Rejected(cache)
    ELSE IF ~StartsWithHttp(url) THEN Rejected(cache)
    ELSE Inserted(cache, url, media_type, generated_text, now)

add_media_BlocksTenor(cache, url, media_type, generated_text, now) ==
    IF url = "" \/ Len(url) < 10 THEN Rejected(cache)
    ELSE IF InList(url, cache.links) THEN Rejected(cache)
    ELSE IF ~StartsWithHttp(url) THEN Rejected(cache)
    ELSE IF ContainsTenor(url) THEN Rejected(cache)
    ELSE Inserted(cache, url, media_type, generated_text, now)

\* mutant of add_media: the scheme is not checked
add_media_NoSchemeCheck(cache, url, media_type, generated_text, now) ==
    IF url = "" \/ Len(url) < 10 THEN Rejected(cache)
    ELSE IF InList(url, cache.links) THEN Rejected(cache)
    ELSE IF ContainsMediaTenor(url) THEN Rejected(cache)
    ELSE Inserted(cache, url, media_type, generated_text, now)

\* add_media
add_media(cache, url, media_type, generated_text, now) ==
    IF url = "" \/ Len(url) < 10 THEN Rejected(cache)
    ELSE IF InList(url, cache.links) THEN Rejected(cache)
    ELSE IF ~StartsWithHttp(url) THEN Rejected(cache)
    ELSE IF ContainsMediaTenor(url) THEN Rejected(cache)
    ELSE Inserted(cache, url, media_type, generated_text, now)

\* mutant of get_random_media: a list of one entry is taken for empty
get_random_media_OffByOne(cache) ==
    IF Len(cache.links) <= 1 THEN {"None"}
    ELSE {cache.links[i] : i \in DOMAIN cache.links}

\* get_random_media: None, or any element of the list (random.choice)
None == "None"
get_random_media(cache) ==
    IF cache.links = <<>> THEN {None}
    ELSE {cache.links[i] : i \in DOMAIN cache.links}

\* clean_tenor_media_from_storage: the filtered cache, the count, and the
\* files, rewritten only when something was removed
\* mutants: the filter drops every tenor.com link; the metadata is not cleaned
KeepLink_AnyTenor(url) == ~ContainsTenor(url)
KeepItem_All(item) == TRUE

KeepLink(url) == ~ContainsMediaTenor(url)
KeepItem(item) == ~ContainsMediaTenor(item.url)
clean_tenor_media_from_storage(cache, files) ==
    LET kept == Cache(SelectSeq(cache.links, KeepLink),
                      SelectSeq(cache.metadata, KeepItem))
        removed_count == Len(cache.links) - Len(kept.links)
    IN  [ret |-> removed_count,
         cache |-> kept,
         files |-> IF removed_count > 0 THEN save_media_data(kept) ELSE files]

TheCache == Cache(links, metadata)
TheFiles == Files(links_file, metadata_file)

SetCache(c) == /\ links' = c.links
               /\ metadata' = c.metadata
SetFiles(f) == /\ links_file' = f.links_file
               /\ metadata_file' = f.metadata_file

----------------------------------------------------------------------------
(* The state before the bot starts: media_cache as the module creates it,  *)
(* and the files either absent (a first run) or as save_media_data of an   *)
(* earlier release left them, with a media.tenor.com link still stored.    *)

T1 == "2026-01-01T00:00:00"
T2 == "2026-01-02T00:00:00"

Item(url, media_type, generated_text, now) ==
    [url |-> url, date_added |-> now, type |-> media_type,
     generated_text |-> generated_text]

LegacyCache ==
    Cache(<<U_VIEW, U_MEDIA>>,
          <<Item(U_VIEW, "gif", "", T1), Item(U_MEDIA, "gif", "", T1)>>)

InitFiles == {Files(NoFile, NoJson), save_media_data(LegacyCache)}

\* word_base.json: absent, not JSON, a JSON array, or a JSON object with the
\* keys it has and their lists
WordBase(file, keys, templates, greetings, descriptive_words) ==
    [file |-> file, keys |-> keys, templates |-> templates,
     greetings |-> greetings, descriptive_words |-> descriptive_words]

NoWordBase == WordBase("missing", {}, <<>>, <<>>, <<>>)

NoCall == [op |-> "none", url |-> "", media_type |-> "", generated_text |-> "",
           ret |-> FALSE, count |-> 0, media |-> None,
           word_base |-> NoWordBase, template |-> ""]

InitStore ==
    /\ links = <<>>
    /\ metadata = <<>>
    /\ \E f \in InitFiles : /\ links_file = f.links_file
                            /\ metadata_file = f.metadata_file
    /\ last = NoCall

MaxScans == 2
Channels == {"c1", "c2"}
TaskIds == 1 .. MaxScans

IdleTask == [pc |-> "idle", channel |-> "", idx |-> 0, found_count |-> 0]

\* settings_cache as the module creates it; posting_probability in hundredths
DefaultSettings ==
    [target_channels |-> <<>>, posting_enabled |-> TRUE, posting_probability |-> 60]

\* settings.json: absent, or the keys the posting loop reads
SettingsFile(target_channels, posting_enabled, posting_probability) ==
    [exists |-> TRUE,
     data |-> [target_channels |-> target_channels,
               posting_enabled |-> posting_enabled,
               posting_probability |-> posting_probability]]

NoSettingsFile == [exists |-> FALSE, data |-> DefaultSettings]

SettingsFiles ==
    {NoSettingsFile}
    \cup {SettingsFile(tc, en, pr) : tc \in {<<>>, <<"c1", "c2">>},
                                     en \in BOOLEAN, pr \in {0, 60, 100}}

\* load_settings: settings_cache.update(data); an absent file leaves the
\* defaults (and writes them)
load_settings(cache, file) == IF file.exists THEN file.data ELSE cache

\* media_posting_loop between two firings, before the first cycle
IdlePost == [pc |-> "idle", media_url |-> None, target_channels |-> <<>>,
             idx |-> 0, message_text |-> "", sent |-> <<>>]

Init ==
    /\ InitStore
    /\ ready = FALSE
    /\ scan_tasks = [c \in Channels |-> 0]
    /\ task = [t \in TaskIds |-> IdleTask]
    /\ settings_cache = DefaultSettings
    /\ post = IdlePost

----------------------------------------------------------------------------
(* SpecStore: the store functions called one at a time.                    *)

\* the cache never grows past MaxStore entries in SpecStore
MaxStore == 3

\* (media_type, generated_text, datetime.now()) of a call of add_media
AddArgs == {<<"gif", "", T1>>, <<"image", "wow", T2>>}

AddCall(url, a) ==
    LET r == add_media(TheCache, url, a[1], a[2], a[3])
    IN  /\ Len(links) < MaxStore
        /\ SetCache(r.cache)
        /\ last' = [NoCall EXCEPT !.op = "add", !.url = url, !.media_type = a[1],
                                  !.generated_text = a[2], !.ret = r.ret]
        /\ UNCHANGED <<links_file, metadata_file>>
        /\ UNCHANGED botVars

PurgeCall ==
    LET r == clean_tenor_media_from_storage(TheCache, TheFiles)
    IN  /\ SetCache(r.cache)
        /\ SetFiles(r.files)
        /\ last' = [NoCall EXCEPT !.op = "purge", !.count = r.ret]
        /\ UNCHANGED botVars

PersistCall ==
    /\ SetFiles(save_media_data(TheCache))
    /\ last' = [NoCall EXCEPT !.op = "persist", !.ret = TRUE]
    /\ UNCHANGED <<links, metadata>>
    /\ UNCHANGED botVars

LoadCall(io_ok) ==
    LET r == load_media_data(TheCache, TheFiles, io_ok)
    IN  /\ SetCache(r.cache)
        /\ last' = [NoCall EXCEPT !.op = "load", !.ret = r.ret]
        /\ UNCHANGED <<links_file, metadata_file>>
        /\ UNCHANGED botVars

SampleCall ==
    /\ \E u \in get_random_media(TheCache) :
           last' = [NoCall EXCEPT !.op = "sample", !.media = u]
    /\ UNCHANGED storeVars
    /\ UNCHANGED botVars

NextStore ==
    \/ \E url \in Urls, a \in AddArgs : AddCall(url, a)
    \/ PurgeCall
    \/ PersistCall
    \/ \E io_ok \in BOOLEAN : LoadCall(io_ok)
    \/ SampleCall

SpecStore == Init /\ [][NextStore]_vars

----------------------------------------------------------------------------
(* The channels and their histories, in the order channel.history yields   *)
(* the messages.  A message is its attachments and its text.               *)

Attachment(content_type, url) == [content_type |-> content_type, url |-> url]
Message(attachments, content) == [attachments |-> attachments, content |-> content]

C_MIX == "look https://i.example.com/a.gif?width=200 and https://cdn.example.com/pic.PNG"

History(c) ==
    IF c = "c1"
    THEN << Message(<<Attachment("image/gif", U_ATTACH)>>, ""),
            Message(<<>>, U_VIEW),
            Message(<<>>, U_PNG),
            Message(<<>>, U_MEDIA) >>
    ELSE << Message(<<Attachment("video/mp4", U_VIDEO),
                      Attachment("image/png", U_PNG)>>, C_MIX) >>

\* content_type.startswith('image/') or content_type == 'image/gif'
IsImageType(content_type) == content_type \in {"image/gif", "image/png"}

\* 'gif' in content_type
TypeMentionsGif(content_type) == content_type \in {"image/gif"}

\* re.findall(r'https?://(?:www\.)?tenor\.com/(?:ru/)?view/[^\s>]*', content)
TenorUrls(content) == IF content = U_VIEW THEN <<U_VIEW>> ELSE <<>>

\* re.findall(r'https?://[^\s]*\.(?:gif|jpg|jpeg|png|webp)[^\s>]*', content,
\*            re.IGNORECASE)
ImageUrls(content) ==
    IF content = U_PNG THEN <<U_PNG>>
    ELSE IF content = U_MEDIA THEN <<U_MEDIA>>
    ELSE IF content = C_MIX THEN <<U_QUERY, U_PNG>>
    ELSE <<>>

----------------------------------------------------------------------------
(* perform_scan: what one message hands to add_media, in the order of the  *)
(* loop body, as (url, media_type) pairs.                                  *)

FromAttachment(a) ==
    IF a.content_type # "" /\ IsImageType(a.content_type)
    THEN << <<a.url, IF TypeMentionsGif(a.content_type) THEN "gif" ELSE "image">> >>
    ELSE <<>>

RECURSIVE FromAttachments(_)
FromAttachments(atts) ==
    IF atts = <<>> THEN <<>>
    ELSE FromAttachment(Head(atts)) \o FromAttachments(Tail(atts))

FromTenorUrls(urls) == [i \in DOMAIN urls |-> <<urls[i], "gif">>]

\* not any(tenor in url for tenor in ['tenor.com', 'media.tenor.com'])
NotTenor(url) == ~(ContainsTenor(url) \/ ContainsMediaTenor(url))

ImageType(url) == IF LowerEndsWithGif(url) THEN "gif" ELSE "image"

FromImageUrls(urls) ==
    LET kept == SelectSeq(urls, NotTenor)
    IN  [i \in DOMAIN kept |-> <<kept[i], ImageType(kept[i])>>]

Candidates(message) ==
    FromAttachments(message.attachments)
    \o (IF message.content # ""
        THEN FromTenorUrls(TenorUrls(message.content))
             \o FromImageUrls(ImageUrls(message.content))
        ELSE <<>>)

\* mutant: found_count counts every candidate, inserted or not
RECURSIVE AddAll_CountsEvery(_, _, _, _)
AddAll_CountsEvery(cache, found_count, cands, now) ==
    IF cands = <<>> THEN [cache |-> cache, found_count |-> found_count]
    ELSE CHOOSE result \in
             { AddAll_CountsEvery(r.cache, found_count + 1, Tail(cands), now) :
                 r \in {add_media(cache, Head(cands)[1], Head(cands)[2], "", now)} } :
             TRUE

\* if add_media(url, media_type): found_count += 1, for each candidate
RECURSIVE AddAll(_, _, _, _)
AddAll(cache, found_count, cands, now) ==
    IF cands = <<>> THEN [cache |-> cache, found_count |-> found_count]
    ELSE CHOOSE result \in
             { AddAll(r.cache,
                      IF r.ret THEN found_count + 1 ELSE found_count,
                      Tail(cands), now) :
                 r \in {add_media(cache, Head(cands)[1], Head(cands)[2], "", now)} } :
             TRUE

\* a task in its except clause: the locals of the walk are dead
ErrorTask(c) == [pc |-> "send_error", channel |-> c, idx |-> 0, found_count |-> 0]

\* finally: if channel.id in scan_tasks: del scan_tasks[channel.id]
Deregister(c) == [scan_tasks EXCEPT ![c] = 0]

----------------------------------------------------------------------------
(* Spec: the bot.  Every action is the code between two awaits.            *)

\* on_ready: load_media_data(), load_settings(), and the posting loop starts
OnReady(io_ok, settings_file) ==
    /\ ~ready
    /\ ready' = TRUE
    /\ SetCache(load_media_data(TheCache, TheFiles, io_ok).cache)
    /\ settings_cache' = load_settings(settings_cache, settings_file)
    /\ UNCHANGED <<links_file, metadata_file, last, scanVars, post>>

\* on_ready on a first run: there is no settings.json
on_ready(io_ok) == OnReady(io_ok, NoSettingsFile)

\* /story: load_media_data(), then the reply
story(io_ok) ==
    /\ ready
    /\ SetCache(load_media_data(TheCache, TheFiles, io_ok).cache)
    /\ UNCHANGED <<links_file, metadata_file, last, ready, scanVars, postVars>>

\* /random: load_media_data() and get_random_media() run before the first
\* await; media_url is what was sampled, and replied tells whether
\* generate_message() and the reply with the caption returned, so that
\* followup.send(media_url) is called (it is not when the store is empty)
RandomCommand(io_ok, media_url, replied) ==
    /\ ready
    /\ \E c \in {load_media_data(TheCache, TheFiles, io_ok).cache} :
          /\ SetCache(c)
          /\ media_url \in get_random_media(c)
    /\ media_url = None => ~replied
    /\ UNCHANGED <<links_file, metadata_file, ready, scanVars, postVars>>

random_media(io_ok) ==
    /\ \E media_url \in
            get_random_media(load_media_data(TheCache, TheFiles, io_ok).cache) :
          RandomCommand(io_ok, media_url, media_url # None)
    /\ UNCHANGED last

\* /clean: clean_tenor_media_from_storage(), then the reply
clean ==
    /\ ready
    /\ LET r == clean_tenor_media_from_storage(TheCache, TheFiles)
       IN  /\ SetCache(r.cache)
           /\ SetFiles(r.files)
    /\ UNCHANGED <<last, ready, scanVars, postVars>>

\* /scan: the acknowledgement, then create_task and scan_tasks[channel.id] = task;
\* an acknowledgement that raises creates no task
FreeTask == CHOOSE t \in TaskIds : task[t].pc = "idle" /\ \A o \in TaskIds :
                                       task[o].pc = "idle" => t <= o
\* mutant: the task is created before the acknowledgement is awaited
ScanCommand_TaskBeforeAck(c, ack_ok) ==
    /\ ready
    /\ \E t \in TaskIds : task[t].pc = "idle"
    /\ task' = [task EXCEPT ![FreeTask] =
                  [pc |-> "walk", channel |-> c, idx |-> 1, found_count |-> 0]]
    /\ scan_tasks' = [scan_tasks EXCEPT ![c] = FreeTask]
    /\ UNCHANGED <<storeVars, ready, postVars>>

ScanCommand(c, ack_ok) ==
    /\ ready
    /\ \E t \in TaskIds : task[t].pc = "idle"
    /\ IF ack_ok
       THEN /\ task' = [task EXCEPT ![FreeTask] =
                          [pc |-> "walk", channel |-> c, idx |-> 1,
                           found_count |-> 0]]
            /\ scan_tasks' = [scan_tasks EXCEPT ![c] = FreeTask]
       ELSE UNCHANGED <<task, scan_tasks>>
    /\ UNCHANGED <<storeVars, ready, postVars>>

scan(c, ack_ok) ==
    /\ ScanCommand(c, ack_ok)
    /\ UNCHANGED last

\* perform_scan, one message of the history: its attachments, then its text.
\* The loop body holds no await; each step of the async for may suspend.
ScanMessage(t, now) ==
    /\ task[t].pc = "walk"
    /\ task[t].idx <= Len(History(task[t].channel))
    /\ \E cands \in {Candidates(History(task[t].channel)[task[t].idx])} :
       \E r \in {AddAll(TheCache, task[t].found_count, cands, now)} :
           /\ SetCache(r.cache)
           /\ task' = [task EXCEPT
                         ![t].idx = @ + 1, ![t].found_count = r.found_count]
    /\ UNCHANGED <<links_file, metadata_file, last, ready, scan_tasks, postVars>>

\* perform_scan, the history is exhausted: save_media_data(), then the
\* result is sent to the channel
ScanFinish(t) ==
    /\ task[t].pc = "walk"
    /\ task[t].idx > Len(History(task[t].channel))
    /\ SetFiles(save_media_data(TheCache))
    /\ task' = [task EXCEPT ![t].pc = "send_result"]
    /\ UNCHANGED <<links, metadata, last, ready, scan_tasks, postVars>>

\* perform_scan, channel.history raises: except sends the error message
ScanWalkError(t) ==
    /\ task[t].pc = "walk"
    /\ task' = [task EXCEPT ![t] = ErrorTask(task[t].channel)]
    /\ UNCHANGED <<storeVars, last, ready, scan_tasks, postVars>>

\* perform_scan, the send of the result returns (finally) or raises (except,
\* which sends the error message)
ScanResultSent(t, send_ok) ==
    /\ task[t].pc = "send_result"
    /\ IF send_ok
       THEN /\ task' = [task EXCEPT ![t] = IdleTask]
            /\ scan_tasks' = Deregister(task[t].channel)
       ELSE /\ task' = [task EXCEPT ![t] = ErrorTask(task[t].channel)]
            /\ UNCHANGED scan_tasks
    /\ UNCHANGED <<storeVars, last, ready, postVars>>

\* mutant: the registry is cleaned after the send instead of in finally
ScanErrorSent_NoFinally(t, send_ok) ==
    /\ task[t].pc = "send_error"
    /\ task' = [task EXCEPT ![t] = IdleTask]
    /\ scan_tasks' = IF send_ok THEN [scan_tasks EXCEPT ![task[t].channel] = 0]
                     ELSE scan_tasks
    /\ UNCHANGED <<storeVars, last, ready, postVars>>

\* perform_scan, the send of the error message returns or raises: finally
\* runs in both cases and the task ends
ScanErrorSent(t, send_ok) ==
    /\ task[t].pc = "send_error"
    /\ task' = [task EXCEPT ![t] = IdleTask]
    /\ scan_tasks' = Deregister(task[t].channel)
    /\ UNCHANGED <<storeVars, last, ready, postVars>>

perform_scan(t) ==
    \/ \E now \in {T2} : ScanMessage(t, now)
    \/ ScanFinish(t)
    \/ ScanWalkError(t)
    \/ \E send_ok \in BOOLEAN : ScanResultSent(t, send_ok)
    \/ \E send_ok \in BOOLEAN : ScanErrorSent(t, send_ok)

----------------------------------------------------------------------------
(* generate_message and the template bank it reads.                        *)

DEFAULT_CAPTION == "Check out this awesome content!"

T_OK    == "{greeting} Look at this {adjective} thing"
T_NAME  == "{greeting} from {name}"
T_BRACE == "{greeting"

\* template.format(greeting=greeting, adjective=adjective): the text, or the
\* exception str.format raises (a field that was not passed: KeyError; an
\* unclosed field: ValueError)
Format(template, greeting, adjective) ==
    IF template = T_OK
    THEN [raises |-> "", text |-> greeting \o " Look at this " \o adjective \o " thing"]
    ELSE IF template = T_NAME THEN [raises |-> "KeyError", text |-> ""]
    ELSE IF template = T_BRACE THEN [raises |-> "ValueError", text |-> ""]
    ELSE [raises |-> "", text |-> template]

TemplateLists == {<<>>, <<T_OK>>, <<T_OK, T_NAME>>, <<T_BRACE>>}
GreetingLists == {<<>>, <<"Hey!">>, <<"Hey!", "Yo!">>}
WordLists == {<<>>, <<"cool">>}

\* the banks: every choice of present keys and of their lists
ObjectBases ==
    {WordBase("object", keys,
              IF "templates" \in keys THEN t ELSE <<>>,
              IF "greetings" \in keys THEN g ELSE <<>>,
              IF "descriptive_words" \in keys THEN w ELSE <<>>) :
        keys \in SUBSET {"templates", "greetings", "descriptive_words"},
        t \in TemplateLists, g \in GreetingLists, w \in WordLists}

WordBases ==
    {NoWordBase,
     WordBase("invalid", {}, <<>>, <<>>, <<>>),
     WordBase("array", {}, <<T_OK>>, <<>>, <<>>)} \cup ObjectBases

\* load_word_base: None when the file is absent or is not JSON
NoneBase == WordBase("None", {}, <<>>, <<>>, <<>>)
load_word_base(file) ==
    IF file.file \in {"missing", "invalid"} THEN NoneBase ELSE file

\* word_base.get(key, default)
Get(word_base, key, default) ==
    IF key \in word_base.keys THEN word_base[key] ELSE default

Elems(s) == {s[i] : i \in DOMAIN s}

Returns(text, template) == [raised |-> FALSE, text |-> text, template |-> template]
Raises(template) == [raised |-> TRUE, text |-> "", template |-> template]

\* generate_message: the captions it can return, or that it raises; with the
\* template random.choice picked ("" when none was picked)
generate_message(file) ==
    LET word_base == load_word_base(file) IN
    IF word_base = NoneBase THEN {Returns(DEFAULT_CAPTION, "")}
    ELSE IF word_base.file = "object" /\ word_base.keys = {}
    THEN {Returns(DEFAULT_CAPTION, "")}
    ELSE IF word_base.file = "array" THEN {Raises("")}
    ELSE LET templates == Get(word_base, "templates", <<>>)
             greetings == Get(word_base, "greetings", <<"Check this out!">>)
             words == Get(word_base, "descriptive_words", <<"amazing">>)
         IN  IF templates = <<>> \/ greetings = <<>> \/ words = <<>>
             THEN {Returns(DEFAULT_CAPTION, "")}
             ELSE {CHOOSE out \in
                     {IF f.raises = "" THEN Returns(f.text, template)
                      ELSE IF f.raises \in {"KeyError", "IndexError"}
                      THEN Returns(DEFAULT_CAPTION, template)
                      ELSE Raises(template) :
                        f \in {Format(template, greeting, adjective)}} : TRUE :
                   template \in Elems(templates),
                   greeting \in Elems(greetings),
                   adjective \in Elems(words)}

----------------------------------------------------------------------------
(* SpecCaption: generate_message called on every bank.                     *)

CaptionCall(file) ==
    /\ \E out \in generate_message(file) :
          last' = [NoCall EXCEPT !.op = "caption", !.word_base = file,
                                 !.template = out.template,
                                 !.ret = ~out.raised,
                                 !.generated_text = out.text]
    /\ UNCHANGED storeVars
    /\ UNCHANGED botVars

NextCaption == \E file \in WordBases : CaptionCall(file)

SpecCaption == Init /\ [][NextCaption]_vars

----------------------------------------------------------------------------
(* media_posting_loop, one firing of the hourly timer.                     *)

\* random.random(), in hundredths
Draws == {0, 59, 60, 99}

\* mutant: the draw is compared with <=
should_post_media_Lte(draw) == draw <= settings_cache.posting_probability

\* should_post_media
should_post_media(draw) == draw < settings_cache.posting_probability

\* the channel ids a target list can hold: of "gone" bot.get_channel returns
\* None, in "denied" the bot may not send
TargetIds == {"c1", "c2", "gone", "denied"}
get_channel(channel_id) == IF channel_id = "gone" THEN None ELSE channel_id
CanSend(channel) == channel # "denied"

\* mutant: the permission is not looked at
Eligible_IgnoresPermission(channel_id) == get_channel(channel_id) # None

\* neither of the two continue statements is taken
Eligible(channel_id) ==
    /\ get_channel(channel_id) # None
    /\ CanSend(get_channel(channel_id))

\* word_base.json as generate_message can find it during a cycle
PostBanks ==
    {NoWordBase,
     WordBase("object", {"templates", "greetings", "descriptive_words"},
              <<T_OK>>, <<"Hey!">>, <<"cool">>),
     WordBase("object", {"templates"}, <<T_BRACE>>, <<>>, <<>>)}

\* what the cycle did for target idx: generate_message raised ("caption"),
\* or a channel.send returned or raised ("text", "url")
Entry(idx, channel, kind, body, ok) ==
    [idx |-> idx, channel |-> channel, kind |-> kind, body |-> body, ok |-> ok]

\* the for loop is exhausted: the cycle ends; what it sent stays on record
EndPost(p) == [p EXCEPT !.pc = "idle", !.idx = 0, !.message_text = ""]

\* the for loop from target i on: targets that no longer exist or deny
\* send_messages are skipped; for the next one generate_message() runs, and
\* if it raises the except clause logs and the loop goes on; else
\* channel.send(message_text) is awaited
RECURSIVE LoopFrom(_, _)
LoopFrom(p, i) ==
    IF i > Len(p.target_channels) THEN {EndPost(p)}
    ELSE IF ~Eligible(p.target_channels[i]) THEN LoopFrom(p, i + 1)
    ELSE UNION {
           IF out.raised
           THEN LoopFrom([p EXCEPT !.sent = Append(@,
                            Entry(i, p.target_channels[i], "caption", "", FALSE))],
                         i + 1)
           ELSE {[p EXCEPT !.pc = "send_text", !.idx = i,
                           !.message_text = out.text]} :
           out \in UNION {generate_message(file) : file \in PostBanks}}

\* mutant: posting_enabled is not looked at
PostTick_NoEnabledCheck ==
    /\ ready
    /\ post.pc = "idle"
    /\ post' = [IdlePost EXCEPT !.pc = "sleep"]
    /\ UNCHANGED <<storeVars, last, ready, scanVars, settings_cache>>

\* the timer fires: return if posting is disabled, else asyncio.sleep(offset)
PostTick ==
    /\ ready
    /\ post.pc = "idle"
    /\ post' = IF settings_cache.posting_enabled
               THEN [IdlePost EXCEPT !.pc = "sleep"] ELSE IdlePost
    /\ UNCHANGED <<storeVars, last, ready, scanVars, settings_cache>>

\* after the sleep: the probability gate, load_media_data(),
\* get_random_media(), the target channels, up to the first send
PostWake(draw, io_ok) ==
    /\ post.pc = "sleep"
    /\ IF ~should_post_media(draw)
       THEN /\ post' = IdlePost
            /\ UNCHANGED <<links, metadata>>
       ELSE \E c \in {load_media_data(TheCache, TheFiles, io_ok).cache} :
              /\ SetCache(c)
              /\ \E media_url \in get_random_media(c) :
                    IF media_url = None \/ settings_cache.target_channels = <<>>
                    THEN post' = IdlePost
                    ELSE post' \in LoopFrom(
                             [IdlePost EXCEPT
                                !.media_url = media_url,
                                !.target_channels = settings_cache.target_channels],
                             1)
    /\ UNCHANGED <<links_file, metadata_file, last, ready, scanVars, settings_cache>>

\* mutant: a send that raises ends the cycle
PostTextSent_FailureAborts(send_ok) ==
    /\ post.pc = "send_text"
    /\ \E p \in {[post EXCEPT !.sent = Append(@,
                      Entry(post.idx, post.target_channels[post.idx], "text",
                            post.message_text, send_ok))]} :
          IF send_ok
          THEN post' = [p EXCEPT !.pc = "send_url"]
          ELSE post' = EndPost(p)
    /\ UNCHANGED <<storeVars, last, ready, scanVars, settings_cache>>

\* channel.send(message_text) returns, and channel.send(media_url) starts, or
\* it raises, and the loop goes on with the next target
PostTextSent(send_ok) ==
    /\ post.pc = "send_text"
    /\ \E p \in {[post EXCEPT !.sent = Append(@,
                      Entry(post.idx, post.target_channels[post.idx], "text",
                            post.message_text, send_ok))]} :
          IF send_ok
          THEN post' = [p EXCEPT !.pc = "send_url"]
          ELSE post' \in LoopFrom(p, post.idx + 1)
    /\ UNCHANGED <<storeVars, last, ready, scanVars, settings_cache>>

\* channel.send(media_url) returns or raises: the next target
PostUrlSent(send_ok) ==
    /\ post.pc = "send_url"
    /\ \E p \in {[post EXCEPT !.sent = Append(@,
                      Entry(post.idx, post.target_channels[post.idx], "url",
                            post.media_url, send_ok))]} :
          post' \in LoopFrom(p, post.idx + 1)
    /\ UNCHANGED <<storeVars, last, ready, scanVars, settings_cache>>

\* /channels: settings_cache['target_channels'] = [channel1.id, ...]
TargetLists ==
    {<<"c1">>, <<"denied">>, <<"c1", "c2">>, <<"gone", "c1", "c2">>,
     <<"c1", "denied", "c2">>}

channels(target_channels) ==
    /\ ready
    /\ settings_cache' = [settings_cache EXCEPT !.target_channels = target_channels]
    /\ UNCHANGED <<storeVars, last, ready, scanVars, post>>

Next ==
    \/ \E io_ok \in BOOLEAN : on_ready(io_ok)
    \/ \E io_ok \in BOOLEAN : story(io_ok)
    \/ \E io_ok \in BOOLEAN : random_media(io_ok)
    \/ clean
    \/ \E c \in Channels, ack_ok \in BOOLEAN : scan(c, ack_ok)
    \/ \E t \in TaskIds : perform_scan(t)
    \/ PostTick
    \/ \E draw \in Draws, io_ok \in BOOLEAN : PostWake(draw, io_ok)

Spec == Init /\ [][Next]_vars

----------------------------------------------------------------------------
(* SpecPost: the posting loop with every settings.json on_ready can find,  *)
(* the channels command, and the purge changing the files between cycles.  *)

NextPost ==
    \/ \E io_ok \in BOOLEAN, file \in SettingsFiles : OnReady(io_ok, file)
    \/ \E target_channels \in TargetLists : channels(target_channels)
    \/ clean
    \/ PostTick
    \/ \E draw \in Draws, io_ok \in BOOLEAN : PostWake(draw, io_ok)
    \/ \E send_ok \in BOOLEAN : PostTextSent(send_ok)
    \/ \E send_ok \in BOOLEAN : PostUrlSent(send_ok)

SpecPost == Init /\ [][NextPost]_vars

----------------------------------------------------------------------------
(* SpecSend: what the random command and the posting loop send while a     *)
(* scan walks and the purge rewrites the files.  last records the latest   *)
(* random command that went on to send the URL it sampled.                 *)

RandomSent(io_ok) ==
    \E media_url \in
         get_random_media(load_media_data(TheCache, TheFiles, io_ok).cache),
       replied \in BOOLEAN :
       /\ RandomCommand(io_ok, media_url, replied)
       /\ last' = IF replied
                  THEN [NoCall EXCEPT !.op = "random", !.media = media_url,
                                      !.ret = TRUE]
                  ELSE last

\* the channel the scans of SpecSend walk
SendChannels == {"c2"}

\* a scan command while no other scan runs
OneScan(c) ==
    /\ \A t \in TaskIds : task[t].pc = "idle"
    /\ scan(c, TRUE)

NextSend ==
    \/ \E io_ok \in BOOLEAN : on_ready(io_ok)
    \/ channels(<<"c1">>)
    \/ clean
    \/ \E c \in SendChannels : OneScan(c)
    \/ \E t \in TaskIds : perform_scan(t)
    \/ \E io_ok \in BOOLEAN : RandomSent(io_ok)
    \/ PostTick
    \/ \E draw \in Draws, io_ok \in BOOLEAN : PostWake(draw, io_ok)
    \/ \E send_ok \in BOOLEAN : PostTextSent(send_ok)
    \/ \E send_ok \in BOOLEAN : PostUrlSent(send_ok)

SpecSend == Init /\ [][NextSend]_vars

----------------------------------------------------------------------------
(* SpecScans: the scan command and the scan tasks alone, with the event    *)
(* loop running every task that can take a step.                           *)

NextScans ==
    \/ \E io_ok \in BOOLEAN : on_ready(io_ok)
    \/ \E c \in Channels, ack_ok \in BOOLEAN : scan(c, ack_ok)
    \/ \E t \in TaskIds : perform_scan(t)

SpecScans ==
    Init /\ [][NextScans]_vars /\ \A t \in TaskIds : WF_vars(perform_scan(t))

----------------------------------------------------------------------------
(* SpecSolo: scans run one at a time and nothing else touches the store.   *)
(* last records the scan command and the size of the store it started on.  *)

SoloScan(c) ==
    /\ \A t \in TaskIds : task[t].pc = "idle"
    /\ ScanCommand(c, TRUE)
    /\ last' = [NoCall EXCEPT !.op = "scan", !.url = c, !.count = Len(links)]

NextSolo ==
    \/ \E io_ok \in BOOLEAN : on_ready(io_ok)
    \/ \E c \in Channels : SoloScan(c)
    \/ \E t \in TaskIds : perform_scan(t)

SpecSolo == Init /\ [][NextSolo]_vars

----------------------------------------------------------------------------
(* SpecAck: the scan command and the scan tasks, with last recording the   *)
(* latest scan command: its channel and whether its acknowledgement was    *)
(* sent.                                                                   *)

ScanAck(c, ack_ok) ==
    /\ ScanCommand(c, ack_ok)
    /\ last' = [NoCall EXCEPT !.op = "scan", !.url = c, !.ret = ack_ok]

NextAck ==
    \/ \E io_ok \in BOOLEAN : on_ready(io_ok)
    \/ \E c \in Channels, ack_ok \in BOOLEAN : ScanAck(c, ack_ok)
    \/ \E t \in TaskIds : perform_scan(t)

SpecAck == Init /\ [][NextAck]_vars

----------------------------------------------------------------------------
(* Claims about the store functions, checked under SpecStore.  In          *)
(* SpecStore every call records itself in last, so a step that ends with   *)
(* last'.op = "add" is a call of add_media (or leaves the state as it is). *)

\* position of url in a list that holds it once
Pos(url, s) == CHOOSE i \in DOMAIN s : s[i] = url

EntriesFor(url, d) == {i \in DOMAIN d : d[i].url = url}

\* C3: of two consecutive calls add(u) at most one returns true: when the
\* first returns true the second returns false, and the second call leaves
\* the URL list and the metadata exactly as the first left them.
C3_AddTwiceInsertsOnce ==
    [][(last.op = "add" /\ last'.op = "add" /\ last'.url = last.url)
         => /\ ~(last.ret /\ last'.ret)
            /\ links' = links
            /\ metadata' = metadata
            /\ Len(links') = Len(links)]_vars

\* a repeated add was rejected as a duplicate
C3_Witness ==
    /\ last.op = "add"
    /\ ~last.ret
    /\ InList(last.url, links)
    /\ ~ContainsMediaTenor(last.url)

\* C4: add of a URL containing media.tenor.com returns false and changes
\* neither the URL list nor the metadata, whatever the store holds.
C4_MediaTenorRejected ==
    [][(last'.op = "add" /\ ContainsMediaTenor(last'.url))
         => /\ last'.ret = FALSE
            /\ links' = links
            /\ metadata' = metadata]_vars

\* media.tenor.com was offered to a store that does not hold it
C4_Witness ==
    /\ last.op = "add"
    /\ ContainsMediaTenor(last.url)
    /\ ~InList(last.url, links)
    /\ last.url \notin DictKeys(metadata)
    /\ links # <<>>

\* C5: add of a URL of at least 10 characters that starts with http:// or
\* https://, is not in the store and does not contain media.tenor.com
\* returns true, appends the URL after the existing entries, and records
\* exactly one metadata entry for it with the given type and caption.
C5_ValidAddAppends ==
    [][(/\ last'.op = "add"
        /\ Len(last'.url) >= 10
        /\ StartsWithHttp(last'.url)
        /\ ~InList(last'.url, links)
        /\ ~ContainsMediaTenor(last'.url)
        /\ last' # last)
         => /\ last'.ret = TRUE
            /\ links' = links \o <<last'.url>>
            /\ Cardinality(EntriesFor(last'.url, metadata')) = 1
            /\ \A i \in EntriesFor(last'.url, metadata') :
                  /\ metadata'[i].type = last'.media_type
                  /\ metadata'[i].generated_text = last'.generated_text]_vars

\* a tenor.com/view/ link was appended to a store that held other entries
C5_Witness ==
    /\ last.op = "add"
    /\ last.ret
    /\ last.url = U_VIEW
    /\ Len(links) >= 2
    /\ links[Len(links)] = U_VIEW

\* C6: purge removes from the URL list and from the metadata exactly the
\* entries whose URL contains media.tenor.com, keeps every other entry in
\* its relative order, and returns the size before minus the size after.
C6_PurgeExact ==
    [][last'.op = "purge"
         => /\ \A u \in Urls :
                 InList(u, links') <=> (InList(u, links) /\ ~ContainsMediaTenor(u))
            /\ \A i, j \in DOMAIN links' :
                 i < j => Pos(links'[i], links) < Pos(links'[j], links)
            /\ Len(links') = Cardinality({links'[i] : i \in DOMAIN links'})
            /\ AsMap(metadata') =
                 {item \in AsMap(metadata) : ~ContainsMediaTenor(item.url)}
            /\ Len(metadata') = Cardinality(AsMap(metadata'))
            /\ last'.count = Len(links) - Len(links')]_vars

\* a purge removed a media.tenor.com link and kept a tenor.com/view/ link
\* and one more entry
C6_Witness ==
    /\ last.op = "purge"
    /\ last.count > 0
    /\ InList(U_VIEW, links)
    /\ Len(links) >= 2
    /\ ~links_file.lines = <<>>

C17_FailedLoadIsEmpty ==
    [][/\ (last'.op = "load" /\ ~last'.ret)
            => /\ links' = <<>>
               /\ metadata' = <<>>
       /\ (last.op = "load" /\ ~last.ret /\ last'.op = "sample")
            => last'.media = None]_vars

\* C18: add of a URL that is empty, shorter than 10 characters or does not
\* start with http:// or https:// returns false and changes neither the URL
\* list nor the metadata, whatever the store holds.
C18_InvalidUrlRejected ==
    [][(/\ last'.op = "add"
        /\ \/ last'.url = ""
           \/ Len(last'.url) < 10
           \/ ~StartsWithHttp(last'.url))
         => /\ last'.ret = FALSE
            /\ links' = links
            /\ metadata' = metadata]_vars

\* a URL of ten characters or more with another scheme was offered to a
\* store that holds entries, and rejected
C18_Witness ==
    /\ last.op = "add"
    /\ last.url = U_FTP
    /\ Len(last.url) >= 10
    /\ ~last.ret
    /\ Len(links) >= 2
    /\ ~InList(U_FTP, links)

\* C8: sample returns None exactly when the URL list is empty, and on a
\* non-empty list it returns a member of the list.
C8_SampleFromList ==
    last.op = "sample"
      => /\ (last.media = None) <=> (links = <<>>)
         /\ links # <<>> => InList(last.media, links)

\* a sample of a store with several entries returned one of them
C8_Witness ==
    /\ last.op = "sample"
    /\ last.media # None
    /\ Len(links) >= 2

----------------------------------------------------------------------------
(* Claims about the bot.                                                   *)

NoDuplicates(s) == \A i, j \in DOMAIN s : s[i] = s[j] => i = j

PassesValidation(url) ==
    /\ Len(url) >= 10
    /\ StartsWithHttp(url)
    /\ ~ContainsMediaTenor(url)

RECURSIVE CandidateUrls(_)
CandidateUrls(history) ==
    IF history = <<>> THEN {}
    ELSE {cand[1] : cand \in {Candidates(Head(history))[i] :
                                i \in DOMAIN Candidates(Head(history))}}
         \cup CandidateUrls(Tail(history))

\* C2: when a scan reports completion, every candidate of the channel's
\* history that passes add_media's validation is in the URL list and in
\* the link file, whatever ran between the messages of the walk.
C2_CompletedScanStoredAll ==
    [][\A t \in TaskIds :
         (task[t].pc = "walk" /\ task'[t].pc = "send_result")
           => \A u \in CandidateUrls(History(task[t].channel)) :
                 PassesValidation(u)
                   => /\ InList(u, links')
                      /\ InList(WriteLine(u), links_file'.lines)]_vars

TypeOf(url) == metadata[CHOOSE i \in DOMAIN metadata : metadata[i].url = url].type

\* C9: a scan that runs with nothing else touching the store reports a
\* found_count equal to the growth of the URL list since the scan command;
\* the history of c1 (a gif attachment, a tenor.com/view/ link,
\* .../pic.PNG and a media.tenor.com link) scanned into an empty store gives
\* found_count 3 and the types gif, gif, image.
C9_FoundCountIsGrowth ==
    \A t \in TaskIds :
        task[t].pc = "send_result"
          => /\ task[t].found_count = Len(links) - last.count
             /\ (task[t].channel = "c1" /\ last.count = 0)
                  => /\ task[t].found_count = 3
                     /\ links = <<U_ATTACH, U_VIEW, U_PNG>>
                     /\ TypeOf(U_ATTACH) = "gif"
                     /\ TypeOf(U_VIEW) = "gif"
                     /\ TypeOf(U_PNG) = "image"

\* the scan of c1 into an empty store has reported
C9_Witness ==
    \E t \in TaskIds :
        /\ task[t].pc = "send_result"
        /\ task[t].channel = "c1"
        /\ last.count = 0

\* the generic URLs the extension pattern finds in the histories and the
\* scan hands to add_media, and the extension the pattern matched in each
GenericTextUrls ==
    UNION {UNION {Elems(SelectSeq(ImageUrls(History(c)[i].content), NotTenor)) :
                    i \in DOMAIN History(c)} : c \in Channels}

MatchedExtension(url) ==
    IF url \in {U_QUERY, U_ATTACH, U_MEDIA} THEN "gif"
    ELSE IF url = U_PNG THEN "png"
    ELSE ""

\* C19: a generic URL the scan found in message text is stored with type
\* gif if the extension the pattern matched is gif, and with type image
\* otherwise, also when a query string follows the extension.
C19_TypeFromMatchedExtension ==
    \A i \in DOMAIN metadata :
        metadata[i].url \in GenericTextUrls
          => metadata[i].type =
               (IF MatchedExtension(metadata[i].url) = "gif" THEN "gif" ELSE "image")

\* the tasks whose found_count is in use, and the sum of their counts
Counting == {t \in TaskIds : task[t].pc \in {"walk", "send_result"}}

RECURSIVE SumFound(_)
SumFound(ts) ==
    IF ts = {} THEN 0
    ELSE LET t == CHOOSE x \in ts : TRUE
         IN  task[t].found_count + SumFound(ts \ {t})

\* C20: no URL is counted twice by the scans in flight: their found counts
\* add up to no more than the number of distinct URLs of their channels
\* that add_media accepts, whatever interleaves with the walks.
C20_NoDoubleCount ==
    SumFound(Counting)
      <= Cardinality(UNION {{u \in CandidateUrls(History(task[t].channel)) :
                               PassesValidation(u)} : t \in Counting})

Running(t) == task[t].pc # "idle"

\* C21: the URL a random command goes on to send, and the URL a posting
\* cycle samples and starts sending, is a line of the link file as the
\* reload of that step found it; so a URL a scan holds only in memory is
\* not sent, and nothing is sent from an empty or absent link file.
C21_SentUrlIsOnFile ==
    [][/\ (last' # last /\ last'.op = "random" /\ last'.ret)
            => /\ links_file.exists
               /\ InList(WriteLine(last'.media), links_file.lines)
       /\ (post.pc = "sleep" /\ post'.pc = "send_text")
            => /\ links_file.exists
               /\ InList(WriteLine(post'.media_url), links_file.lines)]_vars

\* C22: while a scan of a channel is in flight the registry holds an entry
\* for that channel, also when two scans of the channel run and one ends.
C22_RegistryHoldsRunningScans ==
    \A t \in TaskIds : Running(t) => scan_tasks[task[t].channel] # 0

\* C10: every started scan task ends; the step that ends it, on every path,
\* leaves no scan_tasks entry for its channel; and when no scan task runs
\* the registry is empty.
C10_ScanAlwaysDeregisters ==
    /\ \A t \in TaskIds : Running(t) ~> ~Running(t)
    /\ [][\A t \in TaskIds :
             (Running(t) /\ ~Running(t)')
               => scan_tasks'[task[t].channel] = 0]_vars
    /\ []((\A t \in TaskIds : ~Running(t)) => \A c \in Channels : scan_tasks[c] = 0)

\* scans have run and ended: the cache holds what only a scan inserts, no
\* task runs and the registry is empty
C10_Witness ==
    /\ InList(U_ATTACH, links)
    /\ InList(U_QUERY, links)
    /\ \A t \in TaskIds : ~Running(t)
    /\ \A c \in Channels : scan_tasks[c] = 0

\* C11: a scan task starts walking only in the step in which the scan
\* command's acknowledgement was sent: it starts from an idle slot, at the
\* first message with found_count 0, registered for the command's channel,
\* and that step neither adds to nor persists the store nor runs any other
\* task (the handler ends without a step of the walk); a command whose
\* acknowledgement fails creates no task and no registry entry.
C11_AckBeforeWalk ==
    [][/\ \A t \in TaskIds :
            (task[t].pc # "walk" /\ task'[t].pc = "walk")
              => /\ last'.op = "scan"
                 /\ last'.ret
                 /\ last'.url = task'[t].channel
                 /\ task[t].pc = "idle"
                 /\ task'[t].idx = 1
                 /\ task'[t].found_count = 0
                 /\ scan_tasks'[last'.url] = t
                 /\ \A o \in TaskIds \ {t} : task'[o] = task[o]
                 /\ UNCHANGED storeVars
       /\ (last' # last /\ last'.op = "scan" /\ ~last'.ret)
              => /\ task' = task
                 /\ scan_tasks' = scan_tasks
                 /\ UNCHANGED storeVars]_vars

\* a second scan was acknowledged and its task created while the task of
\* the first is in the middle of its walk
C11_Witness ==
    /\ last.op = "scan"
    /\ last.ret
    /\ \E t1, t2 \in TaskIds :
          /\ task[t1].pc = "walk" /\ task[t1].idx > 1
          /\ task[t2].pc = "walk" /\ task[t2].idx = 1
          /\ scan_tasks[last.url] = t2

\* C12: with posting probability 0 a cycle never gets past the sleep: no
\* draw passes the gate, the step that ends the sleep ends the cycle without
\* reloading the store, and nothing is ever sent.
C12_ProbabilityZeroNeverSends ==
    /\ [](settings_cache.posting_probability = 0
            => /\ post.pc \in {"idle", "sleep"}
               /\ post.sent = <<>>)
    /\ [][(settings_cache.posting_probability = 0 /\ post.pc = "sleep"
             /\ post'.pc # "sleep")
            => /\ post' = IdlePost
               /\ UNCHANGED storeVars]_vars

\* a cycle sleeps with probability 0 while the link file holds links and
\* target channels are configured
C12_Witness ==
    /\ settings_cache.posting_probability = 0
    /\ settings_cache.posting_enabled
    /\ post.pc = "sleep"
    /\ settings_cache.target_channels # <<>>
    /\ links_file.lines # <<>>

\* C13: with posting disabled the cycle never leaves its start: it does not
\* sleep, roll, reload or send, and a firing of the timer changes nothing.
C13_DisabledCycleDoesNothing ==
    /\ [](~settings_cache.posting_enabled
            => /\ post.pc = "idle"
               /\ post.sent = <<>>)
    /\ [][(~settings_cache.posting_enabled /\ PostTick)
            => /\ post' = IdlePost
               /\ UNCHANGED storeVars]_vars

\* the timer can fire with posting disabled, while links are stored, target
\* channels are configured and any draw would pass the gate
C13_Witness ==
    /\ ~settings_cache.posting_enabled
    /\ ready
    /\ post.pc = "idle"
    /\ settings_cache.posting_probability = 100
    /\ settings_cache.target_channels # <<>>
    /\ links # <<>>

\* the targets of the cycle the loop has dealt with: all of them once the
\* cycle has ended, else those before the one it is sending to
Handled(p) ==
    IF p.pc = "idle" THEN DOMAIN p.target_channels
    ELSE {i \in DOMAIN p.target_channels : i < p.idx}

\* C14: whatever failed earlier in the cycle, every target that exists and
\* grants send permission was attempted once the loop has passed it, and the
\* cycle ends at the end of its target list.
C14_FailureDoesNotStopCycle ==
    /\ \A i \in Handled(post) :
          Eligible(post.target_channels[i])
            => \E k \in DOMAIN post.sent : post.sent[k].idx = i
    /\ post.pc \in {"send_text", "send_url"}
          => /\ post.idx \in DOMAIN post.target_channels
             /\ Eligible(post.target_channels[post.idx])

\* a cycle has ended in which a send failed for one target and a later
\* target received the URL
C14_Witness ==
    /\ post.pc = "idle"
    /\ \E k, l \in DOMAIN post.sent :
          /\ post.sent[k].kind \in {"text", "url"}
          /\ ~post.sent[k].ok
          /\ post.sent[l].idx > post.sent[k].idx
          /\ post.sent[l].kind = "url"
          /\ post.sent[l].ok

EntriesOf(p, i) == SelectSeq(p.sent, LAMBDA e : e.idx = i)

Defective(file) ==
    \/ file.file \in {"missing", "invalid", "array"}
    \/ \E key \in {"templates", "greetings", "descriptive_words"} :
          key \notin file.keys \/ file[key] = <<>>

\* the interpolation of the template fails
FormatFails(template) == template # "" /\ Format(template, "g", "a").raises # ""

\* C16: generate_message on a bank that is missing, malformed, lacks a key
\* or has an empty list, or with a template whose interpolation fails,
\* returns the fixed default caption and does not raise.
C16_DefectiveBankGivesDefault ==
    (last.op = "caption" /\ (Defective(last.word_base) \/ FormatFails(last.template)))
      => /\ last.ret
         /\ last.generated_text = DEFAULT_CAPTION

====
